---------------------------- MODULE Spec2Model ----------------------------
(***************************************************************************)
(* Day 16 of emwalker/aoc2022 (src/day16/src/main.rs): the valve network,  *)
(* its distance matrix, the branch-and-bound search of part1 and part2 and *)
(* the two-agent combiner, as a state machine.                             *)
(*                                                                         *)
(* Indices of valves, of the reduced network and of bit masks are 0-based  *)
(* as in the source; a Vec<T> of length n is a function on 0..n-1, except  *)
(* the input list `valves` and the links of a valve, which are sequences.  *)
(***************************************************************************)
EXTENDS Integers, Sequences, FiniteSets, TLC

VARIABLES
    valves,      \* the parsed input: a sequence of [name, flow, links]
    build,       \* "debug": an overflow panics; "release": it wraps
    plan,        \* the calls made on the Task, in order: [kind, minutes]
    pc,          \* "parsed" | "ready" | "search" | "done" | "panic" | "error"
    net,         \* the Network and the start index built by from_str
    full_dists,  \* the matrix returned by shortest_distances
    job,         \* index in plan of the call being run
    stack,       \* the recursion of branch_and_bound: frames [state, pairs, order]
    ans,         \* *ans of the search being run
    table,       \* max_for_visited, the entries ever written (others are 0)
    results,     \* the values returned so far, one per finished call
    wrapped,     \* release build: some u8/u16 operation has wrapped
    entered,     \* the states branch_and_bound was called with in this search
    pair_order,  \* the order the sort of line 174 gave each input with ties
    max_order    \* the order the sort of line 275 gave each table with ties

vars == <<valves, build, plan, pc, net, full_dists, job, stack, ans, table,
          results, wrapped, entered, pair_order, max_order>>

----------------------------------------------------------------------------
(* Integer widths *)

U8MAX == 255
U16MAX == 65535
MaskBits == 16
Part1Minutes == 30
Part2Minutes == 26

Pow2(n) == 2 ^ n

Max(a, b) == IF a >= b THEN a ELSE b

\* 1 << i in u16 (lines 62, 70, 84) as a release build computes it: the
\* shift amount is taken modulo the 16 bits of the type
Shl(i) == Pow2(i % MaskBits)

\* 1 << i is out of range in u16: a debug build panics
ShlOverflows(i) == i >= MaskBits

\* bit i of mask m is set:  m & (1 << i) != 0
Bit(m, i) == (m \div Shl(i)) % 2 = 1

\* m | (1 << i)
SetBit(m, i) == IF Bit(m, i) THEN m ELSE m + Shl(i)

\* a & b == 0 on u16
Disjoint(a, b) == \A i \in 0..(MaskBits - 1) : ~(Bit(a, i) /\ Bit(b, i))

\* u8::wrapping_add in the place of saturating_add
WrappingAdd(a, b) == (a + b) % (U8MAX + 1)

\* u8::saturating_add
SaturatingAdd(a, b) == IF a + b > U8MAX THEN U8MAX ELSE a + b

\* The descending sorts of the source are unstable: every arrangement of the
\* elements of S in which keys do not increase is a possible outcome.
RECURSIVE SortedDesc(_, _)
SortedDesc(S, key) ==
    IF S = {} THEN {<<>>}
    ELSE LET top == {x \in S : \A y \in S : key[x] >= key[y]}
         IN  UNION {{<<x>> \o rest : rest \in SortedDesc(S \ {x}, key)} : x \in top}

----------------------------------------------------------------------------
(* shortest_distances *)

NumValves(vs) == Len(vs)

Valve(vs, i) == vs[i + 1]

\* indexes: HashMap<&String, usize> collected from (name, i): a later valve of
\* the same name replaces an earlier one
HasIndex(vs, name) == \E i \in 0..(NumValves(vs) - 1) : Valve(vs, i).name = name

IndexOf(vs, name) ==
    CHOOSE i \in 0..(NumValves(vs) - 1) :
        /\ Valve(vs, i).name = name
        /\ \A j \in 0..(NumValves(vs) - 1) : Valve(vs, j).name = name => j <= i

\* indexes[link] panics on a name that is no key
LinksKnown(vs) ==
    \A i \in 0..(NumValves(vs) - 1) :
        \A l \in 1..Len(Valve(vs, i).links) : HasIndex(vs, Valve(vs, i).links[l])

\* InitialDists without the loop of lines 132-134
InitialDistsNoDiagonal(vs) ==
    LET n == NumValves(vs)
    IN  [i \in 0..(n - 1) |->
            [j \in 0..(n - 1) |->
                IF \E l \in 1..Len(Valve(vs, i).links) :
                       IndexOf(vs, Valve(vs, i).links[l]) = j
                THEN 1
                ELSE U8MAX]]

\* dists after the two initialising loops (lines 121-134)
InitialDists(vs) ==
    LET n == NumValves(vs)
    IN  [i \in 0..(n - 1) |->
            [j \in 0..(n - 1) |->
                IF i = j THEN 0
                ELSE IF \E l \in 1..Len(Valve(vs, i).links) :
                            IndexOf(vs, Valve(vs, i).links[l]) = j
                     THEN 1
                     ELSE U8MAX]]

\* One round k of the relaxation (lines 137-144).  The source updates dists in
\* place; row k and column k do not change during round k because
\* dists[k][k] = 0, so the round reads the same values as this copy does.
Relax(d, k) ==
    [i \in DOMAIN d |->
        [j \in DOMAIN d |->
            LET via == SaturatingAdd(d[i][k], d[k][j])
            IN  IF d[i][j] > via THEN via ELSE d[i][j]]]

RECURSIVE FloydWarshall(_, _, _)
FloydWarshall(d, k, n) ==
    IF k >= n THEN d ELSE FloydWarshall(Relax(d, k), k + 1, n)

shortest_distances(vs) == FloydWarshall(InitialDists(vs), 0, NumValves(vs))

----------------------------------------------------------------------------
(* Task::from_str, after parsing *)

IsInteresting(v) == v.name = "AA" \/ v.flow > 0

\* interesting_subset: the indices of the interesting valves, ascending
RECURSIVE InterestingFrom(_, _)
InterestingFrom(vs, i) ==
    IF i >= NumValves(vs) THEN <<>>
    ELSE (IF IsInteresting(Valve(vs, i)) THEN <<i>> ELSE <<>>)
             \o InterestingFrom(vs, i + 1)

interesting_subset(vs) == InterestingFrom(vs, 0)

\* .position(|&i| valves[i].name == "AA"): the first one
HasStart(vs) == \E i \in 0..(NumValves(vs) - 1) : Valve(vs, i).name = "AA"

StartOf(vs) ==
    LET sub == interesting_subset(vs)
    IN  (CHOOSE p \in 1..Len(sub) :
            /\ Valve(vs, sub[p]).name = "AA"
            /\ \A q \in 1..(p - 1) : Valve(vs, sub[q]).name # "AA") - 1

\* FromStrPanics without the assert of line 206
FromStrPanicsNoAssert(vs) ==
    \/ ~LinksKnown(vs)
    \/ ~HasStart(vs)

\* parser::parse(s)? (line 194): the parser wants at least one record, so a
\* text without records makes from_str return Err("failed to parse input")
ParseFails(vs) == vs = << >>

\* from_str panics: an unknown link (line 126), more than 16 interesting
\* valves (line 206), no AA (line 233)
FromStrPanics(vs) ==
    \/ ~LinksKnown(vs)
    \/ Len(interesting_subset(vs)) > MaskBits
    \/ ~HasStart(vs)

\* The networks from_str may return: they differ only in how sorted_indexes
\* orders valves of equal flow.
Networks(vs, full) ==
    LET sub == interesting_subset(vs)
        k == Len(sub)
        flows == [i \in 0..(k - 1) |-> Valve(vs, sub[i + 1]).flow]
        dists == [i \in 0..(k - 1) |-> [j \in 0..(k - 1) |-> full[sub[i + 1]][sub[j + 1]]]]
    IN  {[flows |-> flows,
          dists |-> dists,
          sorted_indexes |-> [p \in 0..(k - 1) |-> s[p + 1]],
          start |-> StartOf(vs)] : s \in SortedDesc(0..(k - 1), flows)}


----------------------------------------------------------------------------
(* State *)

\* State::new
NewState(pos, minutes_remaining) ==
    [visited |-> 0,
     avoid |-> Shl(pos),
     pressure_released |-> 0,
     minutes_remaining |-> minutes_remaining,
     pos |-> pos]

\* can_visit without the test of avoid
CanVisitUnopened(s, i) == ~Bit(s.visited, i)

\* can_visit without the test of visited
CanVisitNotAvoided(s, i) == ~Bit(s.avoid, i)

\* State::can_visit: (self.visited | self.avoid) & (1 << i) == 0
can_visit(s, i) == ~Bit(s.visited, i) /\ ~Bit(s.avoid, i)

NumInteresting(n) == Cardinality(DOMAIN n.flows)

Candidates(n, s) == {dest \in DOMAIN n.flows : can_visit(s, dest)}

\* *d + 1 in u8 (line 79): the mathematical value, and the value a release
\* build computes
CostMath(n, s, dest) == n.dists[s.pos][dest] + 1

Cost(n, s, dest) == CostMath(n, s, dest) % (U8MAX + 1)

\* BranchTargets with the test remaining > cost in place of checked_sub
BranchTargetsStrict(n, s) ==
    {dest \in Candidates(n, s) : s.minutes_remaining > Cost(n, s, dest)}

\* checked_sub(cost) is Some
BranchTargets(n, s) ==
    {dest \in Candidates(n, s) : s.minutes_remaining >= Cost(n, s, dest)}

\* PressureMath with the minutes taken before the move is paid for
PressureBeforeMove(n, s, dest) ==
    s.pressure_released + s.minutes_remaining * n.flows[dest]

\* self.pressure_released + (minutes_remaining as u16 * net.flows[dest] as u16)
PressureMath(n, s, dest) ==
    s.pressure_released + (s.minutes_remaining - Cost(n, s, dest)) * n.flows[dest]

Child(n, s, dest) ==
    [visited |-> SetBit(s.visited, dest),
     avoid |-> s.avoid,
     pressure_released |-> PressureMath(n, s, dest) % (U16MAX + 1),
     minutes_remaining |-> s.minutes_remaining - Cost(n, s, dest),
     pos |-> dest]

\* State::branch: the successors, one per target
branch(n, s) == {Child(n, s, dest) : dest \in BranchTargets(n, s)}

\* some u8 or u16 operation of branch is out of range: the shift of
\* can_visit(dest), made for every index of dists[pos], the cost, the pressure
BranchOverflows(n, s) ==
    \/ \E dest \in DOMAIN n.flows : ShlOverflows(dest)
    \/ \E dest \in Candidates(n, s) : CostMath(n, s, dest) > U8MAX
    \/ \E dest \in BranchTargets(n, s) : PressureMath(n, s, dest) > U16MAX

\* sorted_flows: the flows of the valves that can be visited, in the order of
\* sorted_indexes
RECURSIVE SortedFlowsFrom(_, _, _)
SortedFlowsFrom(n, s, p) ==
    IF p >= NumInteresting(n) THEN <<>>
    ELSE (IF can_visit(s, n.sorted_indexes[p])
          THEN <<n.flows[n.sorted_indexes[p]]>> ELSE <<>>)
             \o SortedFlowsFrom(n, s, p + 1)

\* (0..=minutes_remaining).rev().step_by(2).skip(1): m - 2, m - 4, ... >= 0
BoundMinutes(m) == [i \in 1..(m \div 2) |-> m - 2 * i]

RECURSIVE ZipSum(_, _, _)
ZipSum(ms, fs, i) ==
    IF i > Len(ms) \/ i > Len(fs) THEN 0
    ELSE ms[i] * fs[i] + ZipSum(ms, fs, i + 1)

\* res + self.pressure_released, before any wrap.  Every term is >= 0, so a
\* partial sum is out of range iff the total is.
BoundMath(n, s) ==
    ZipSum(BoundMinutes(s.minutes_remaining), SortedFlowsFrom(n, s, 0), 1)
        + s.pressure_released

\* State::bound
bound(n, s) == BoundMath(n, s) % (U16MAX + 1)

----------------------------------------------------------------------------
(* The two filters and Network::branch_and_bound *)

\* StrictFilter that also keeps a bound equal to best
StrictFilterOrEqual(b, best) == b >= best

\* |bound, best| bound > best                (part1, line 253)
StrictFilter(b, best) == b > best

\* |bound, best| bound > (best * 3 / 4)       (part2, line 267)
LooseFilter(b, best) == b > ((best * 3) % (U16MAX + 1)) \div 4

filter_bound(kind, b, best) ==
    IF kind = "part1" THEN StrictFilter(b, best) ELSE LooseFilter(b, best)

FilterOverflows(kind, best) == kind = "part2" /\ best * 3 > U16MAX

\* the table with an entry for the masks of fifteen valves only:
\* vec![0; 1 << 15]
TableLenFifteenBits(kind) == IF kind = "part1" THEN 0 ELSE Pow2(MaskBits - 1)

\* max_for_visited: &mut [] in part1, vec![0; u16::MAX as usize] in part2
TableLen(kind) == IF kind = "part1" THEN 0 ELSE U16MAX

TableAt(t, m) == IF m \in DOMAIN t THEN t[m] ELSE 0

\* RecordVisited that stores the pressure of the state without the max
RecordVisitedOverwrite(t, kind, s) ==
    IF s.visited < TableLen(kind)
    THEN [m \in DOMAIN t \cup {s.visited} |->
             IF m = s.visited THEN s.pressure_released ELSE t[m]]
    ELSE t

\* lines 164-166
RecordVisited(t, kind, s) ==
    IF s.visited < TableLen(kind)
    THEN [m \in DOMAIN t \cup {s.visited} |->
             IF m = s.visited THEN Max(s.pressure_released, TableAt(t, m))
             ELSE t[m]]
    ELSE t

\* line 167
RecordBest(best, s) == Max(s.pressure_released, best)

\* pairs (lines 169-175), before the sort: the children that pass the filter
Pairs(n, kind, s, best) ==
    {[bound |-> bound(n, c), state |-> c] :
        c \in {x \in branch(n, s) : filter_bound(kind, bound(n, x), best)}}

\* an operation of lines 169-175 is out of range
PairsOverflow(n, kind, s, best) ==
    \/ BranchOverflows(n, s)
    \/ \E c \in branch(n, s) : BoundMath(n, c) > U16MAX
    \/ branch(n, s) # {} /\ FilterOverflows(kind, best)

\* NextPairs of pairs left unsorted: any pair may be the next one
AnyPair(frame) == frame.pairs

\* the pair the loop of line 177 takes next: the first pair of the sorted
\* vector that the loop has not taken yet
NextPairs(frame) ==
    {p \in frame.pairs :
        \E i \in 1..Len(frame.order) :
            /\ frame.order[i] = p
            /\ \A j \in 1..(i - 1) : frame.order[j] \notin frame.pairs}

\* the outcomes an unstable sort by Reverse(bound) may give the pairs P
PairOrders(P) == SortedDesc(P, [p \in P |-> p.bound])

HasTies(P) == \E p, q \in P : p # q /\ p.bound = q.bound

\* the memo with the outcome sq of sorting the input key added: only an input
\* with ties has more than one outcome
Remember(memo, key, sq, ties) ==
    IF ties /\ key \notin DOMAIN memo
    THEN [k \in DOMAIN memo \cup {key} |-> IF k = key THEN sq ELSE memo[k]]
    ELSE memo

\* a sort whose order of equal keys is drawn afresh at every call
SortedPairsAnew(memo, P) == PairOrders(P)

\* line 174: sorted_unstable_by_key is one function of its input; which of
\* the orders of equal bounds it gives is not specified, but the vector built
\* from the same pairs is sorted the same way every time
SortedPairs(memo, P) ==
    IF P \in DOMAIN memo THEN {memo[P]} ELSE PairOrders(P)

Kind == plan[job].kind

Top == stack[Len(stack)]

\* lines 177-181, one iteration: the pair p is taken from the top frame and
\* its state is entered iff the filter still passes against the current *ans
Iterate(p) ==
    LET rest == [Top EXCEPT !.pairs = @ \ {p}]
        below == SubSeq(stack, 1, Len(stack) - 1)
        ovf == FilterOverflows(Kind, ans)
    IN  IF ovf /\ build = "debug"
        THEN /\ pc' = "panic"
             /\ UNCHANGED <<stack, ans, table, wrapped, entered, pair_order>>
        ELSE IF filter_bound(Kind, p.bound, ans)
        THEN LET best == RecordBest(ans, p.state)
                 ovf2 == PairsOverflow(net, Kind, p.state, best)
                 P == Pairs(net, Kind, p.state, best)
             IN  /\ table' = RecordVisited(table, Kind, p.state)
                 /\ ans' = best
                 /\ \E sq \in SortedPairs(pair_order, P) :
                        /\ stack' = below \o <<rest,
                               [state |-> p.state, pairs |-> P, order |-> sq]>>
                        /\ pair_order' = Remember(pair_order, P, sq, HasTies(P))
                 /\ pc' = IF ovf2 /\ build = "debug" THEN "panic" ELSE "search"
                 /\ wrapped' = (wrapped \/ ovf \/ (ovf2 /\ build = "release"))
                 /\ entered' = entered \cup {p.state}
        ELSE /\ stack' = below \o <<rest>>
             /\ wrapped' = (wrapped \/ ovf)
             /\ UNCHANGED <<pc, ans, table, entered, pair_order>>

----------------------------------------------------------------------------
(* The combiner of part2, lines 270-294 *)

\* sorted_max: the masks of positive value, by descending value
SortedMax(t) == SortedDesc({m \in DOMAIN t : t[m] > 0}, t)

TableHasTies(t) == \E a, b \in DOMAIN t : a # b /\ t[a] > 0 /\ t[a] = t[b]

\* lines 270-276: the sort of sorted_max is one function of the table
SortedTable(memo, t) ==
    IF t \in DOMAIN memo THEN {memo[t]} ELSE SortedMax(t)

\* elf_max + ele_max of the pair (i, j), 1-based, before any wrap
ScoreMath(sm, t, i, j) == t[sm[i]] + t[sm[j]]

Score(sm, t, i, j) == ScoreMath(sm, t, i, j) % (U16MAX + 1)

\* the inner loop for one i (lines 281-291): the first j > i at which it
\* breaks, or 0 when it runs to the end
InnerBreak(sm, t, i, best) ==
    LET stops == {j \in (i + 1)..Len(sm) :
                    Score(sm, t, i, j) <= best \/ Disjoint(sm[i], sm[j])}
    IN  IF stops = {} THEN 0 ELSE CHOOSE j \in stops : \A k \in stops : j <= k

\* `ans` after the inner loop for i
InnerAns(sm, t, i, best) ==
    LET j == InnerBreak(sm, t, i, best)
    IN  IF j = 0 \/ Score(sm, t, i, j) <= best THEN best ELSE Score(sm, t, i, j)

\* a sum computed by the inner loop for i is out of range
InnerOverflows(sm, t, i, best) ==
    LET j == InnerBreak(sm, t, i, best)
        last == IF j = 0 THEN Len(sm) ELSE j
    IN  \E k \in (i + 1)..last : ScoreMath(sm, t, i, k) > U16MAX

\* the outer loop (line 280) for the positions lo..hi of sorted_max, 1-based,
\* entered with acc.ans as `ans`: the positions are run in order, the lower
\* half first, then the upper half with what the lower half has left.  A
\* debug build has panicked at the first sum that is out of range.
RECURSIVE CombineFrom(_, _, _, _, _)
CombineFrom(sm, t, lo, hi, acc) ==
    IF lo > hi THEN acc
    ELSE IF lo = hi
    THEN [ans |-> InnerAns(sm, t, lo, acc.ans),
          ovf |-> acc.ovf \/ InnerOverflows(sm, t, lo, acc.ans)]
    ELSE LET mid == (lo + hi) \div 2
             lower == CombineFrom(sm, t, lo, mid, acc)
         IN  IF lower.ovf /\ build = "debug" THEN lower
             ELSE CombineFrom(sm, t, mid + 1, hi, lower)

Combine(sm, t) == CombineFrom(sm, t, 1, Len(sm), [ans |-> 0, ovf |-> FALSE])

----------------------------------------------------------------------------
(* Inputs *)

V(name, flow, links) == [name |-> name, flow |-> flow, links |-> links]

\* data/example.txt, the network of the tests
Example ==
    << V("AA", 0, <<"DD", "II", "BB">>), V("BB", 13, <<"CC", "AA">>),
       V("CC", 2, <<"DD", "BB">>), V("DD", 20, <<"CC", "AA", "EE">>),
       V("EE", 3, <<"FF", "DD">>), V("FF", 0, <<"EE", "GG">>),
       V("GG", 0, <<"FF", "HH">>), V("HH", 22, <<"GG">>),
       V("II", 0, <<"AA", "JJ">>), V("JJ", 21, <<"II">>) >>

\* three valves AA, BB, CC: connected, one-way and disconnected tunnels, a
\* start valve with a flow, a valve of the largest flow
MaxBudget == 4

SmallInputs ==
    { << V("AA", fa, la), V("BB", fb, lb), V("CC", fc, lc) >> :
        fa \in {0, 2}, fb \in {0, 3}, fc \in {3, 255},
        la \in {<<"BB">>, <<"BB", "CC">>, <<"AA">>},
        lb \in {<<"AA">>, <<"AA", "CC">>, <<"CC">>},
        lc \in {<<"BB">>, <<"AA">>, <<"CC">>} }

Job(kind, minutes) == [kind |-> kind, minutes |-> minutes]

\* main: part1, then part2
MainPlan == << Job("part1", Part1Minutes), Job("part2", Part2Minutes) >>

\* the two searches with other budgets, and the same call twice
SmallPlans ==
    { << Job("part1", t1), Job("part1", t2) >> : t1, t2 \in 0..MaxBudget }
        \cup { << Job("part1", t), Job("part2", t) >> : t \in 0..MaxBudget }
        \cup { << Job("part2", t), Job("part2", t) >> : t \in 0..MaxBudget }

\* the same call twice, with the budgets of main
RepeatPlans ==
    { << Job("part1", Part1Minutes), Job("part1", Part1Minutes) >>,
      << Job("part2", Part2Minutes), Job("part2", Part2Minutes) >> }

\* four valves with a flow, one of them (DD) eight tunnels from AA
FarValve ==
    << V("AA", 0, <<"BB", "CC", "ZG">>), V("BB", 1, <<"AA">>),
       V("CC", 1, <<"AA", "EE">>), V("DD", 1, <<"ZA">>),
       V("EE", 3, <<"CC">>), V("ZA", 0, <<"DD", "ZB">>),
       V("ZB", 0, <<"ZA", "ZC">>), V("ZC", 0, <<"ZB", "ZD">>),
       V("ZD", 0, <<"ZC", "ZE">>), V("ZE", 0, <<"ZD", "ZF">>),
       V("ZF", 0, <<"ZE", "ZG">>), V("ZG", 0, <<"AA", "ZF">>) >>

\* one large and three small flows behind it
Branching ==
    << V("AA", 0, <<"BB">>), V("BB", 20, <<"AA", "CC", "DD">>),
       V("CC", 1, <<"BB">>), V("DD", 0, <<"BB", "EE", "FF">>),
       V("EE", 3, <<"DD">>), V("FF", 4, <<"DD">>) >>

\* one-way tunnels: every valve can be reached from AA, BB and DD cannot be
\* reached from each other's side
OneWay ==
    << V("AA", 0, <<"BB", "CC">>), V("BB", 2, <<"BB">>),
       V("CC", 1, <<"DD">>), V("DD", 255, <<"BB">>) >>

\* ZZ has no flow and cannot be reached from AA; it is one tunnel from CC
\* where AA is two tunnels from it
Shortcut ==
    << V("AA", 0, <<"BB">>), V("BB", 0, <<"CC">>),
       V("CC", 3, <<"AA">>), V("ZZ", 0, <<"CC">>) >>

\* five valves of the largest flows next to AA and to each other, and a
\* small one two tunnels from AA
HighFlow ==
    << V("AA", 0, <<"BA", "BB", "BC", "BD", "BE", "ZA">>),
       V("BA", 255, <<"AA", "BB", "BC", "BD", "BE">>),
       V("BB", 254, <<"AA", "BA", "BC", "BD", "BE">>),
       V("BC", 253, <<"AA", "BA", "BB", "BD", "BE">>),
       V("BD", 252, <<"AA", "BA", "BB", "BC", "BE">>),
       V("BE", 251, <<"AA", "BA", "BB", "BC", "BD">>),
       V("ZA", 0, <<"AA", "XX">>),
       V("XX", 1, <<"ZA">>) >>

ManyNames ==
    << "AA", "AB", "AC", "AD", "AE", "AF", "AG", "AH", "AI", "AJ", "AK", "AL",
       "AM", "AN", "AO", "AP", "AQ" >>

\* AA and n - 1 valves of flows 1, 2, ..., each with a tunnel to AA and back
Star(n) ==
    [i \in 1..n |->
        IF i = 1 THEN V("AA", 0, SubSeq(ManyNames, 2, n))
        ELSE V(ManyNames[i], i - 1, <<"AA">>)]

\* as many interesting valves as the masks have bits, and one more
Sixteen == Star(MaskBits)

Seventeen == Star(MaskBits + 1)

\* both searches with time for one valve of the star
ShortPlan == << Job("part1", 3), Job("part2", 3) >>

\* AA and twelve valves of flows 251, 250, ..., 240 that cannot be reached
\* from AA or from each other: the only tunnels lead to AA
Stranded ==
    [i \in 1..13 |->
        IF i = 1 THEN V("AA", 0, <<"AA">>)
        ELSE V(ManyNames[i], 253 - i, <<"AA">>)]

\* part1 twice
Part1Twice == << Job("part1", Part1Minutes), Job("part1", Part1Minutes) >>

\* a ring of one-way tunnels: AA, eight valves of large flows, then fifteen
\* valves without flow that lead back to AA.  Every valve can be reached from
\* every other one, and going round the ring takes more minutes than part2 has
\* left at any valve, so the valves are opened in the order of the ring.  The
\* flows are such that no two entries of the table of part2 are equal.
RingNames ==
    << "AA", "BA", "BB", "BC", "BD", "BE", "BF", "BG", "BH", "ZA", "ZB", "ZC",
       "ZD", "ZE", "ZF", "ZG", "ZH", "ZI", "ZJ", "ZK", "ZL", "ZM", "ZN", "ZO" >>

RingFlows == << 0, 255, 251, 252, 253, 254, 247, 249, 245 >>

Ring ==
    [i \in 1..Len(RingNames) |->
        V(RingNames[i],
          IF i <= Len(RingFlows) THEN RingFlows[i] ELSE 0,
          << RingNames[(i % Len(RingNames)) + 1] >>)]

\* no valve is named AA
NoStart == << V("BB", 1, <<"CC">>), V("CC", 2, <<"BB">>) >>

\* the tunnel of BB names a valve that is not in the list
UnknownLink == << V("AA", 0, <<"BB">>), V("BB", 3, <<"ZZ">>) >>

\* a text without records: the empty text, or blank lines only
Empty == << >>

Scenarios ==
    ({Example, Branching, HighFlow, Ring, Seventeen, NoStart, UnknownLink, Empty}
            \X {MainPlan})
        \cup ({FarValve} \X RepeatPlans)
        \cup ((SmallInputs \cup {OneWay}) \X ({MainPlan} \cup RepeatPlans \cup SmallPlans))
        \cup ({Shortcut} \X ({MainPlan} \cup SmallPlans))
        \cup ({Sixteen} \X {ShortPlan})
        \cup ({Stranded} \X {Part1Twice})

----------------------------------------------------------------------------
(* The state machine *)

NoNet == [flows |-> <<>>, dists |-> <<>>, sorted_indexes |-> <<>>, start |-> 0]

Init ==
    /\ \E sc \in Scenarios : valves = sc[1] /\ plan = sc[2]
    /\ build \in {"debug", "release"}
    /\ pc = "parsed"
    /\ net = NoNet
    /\ full_dists = <<>>
    /\ job = 1
    /\ stack = <<>>
    /\ ans = 0
    /\ table = <<>>
    /\ results = <<>>
    /\ wrapped = FALSE
    /\ entered = {}
    /\ pair_order = << >>
    /\ max_order = << >>

\* Task::from_str on the records of the input text: it returns Err when the
\* text does not parse, panics on a configuration error, and returns the Task
\* otherwise
FromStr ==
    /\ pc = "parsed"
    /\ IF ParseFails(valves)
       THEN /\ pc' = "error"
            /\ UNCHANGED <<net, full_dists>>
       ELSE IF FromStrPanics(valves)
       THEN /\ pc' = "panic"
            /\ UNCHANGED <<net, full_dists>>
       ELSE /\ full_dists' = shortest_distances(valves)
            /\ net' \in Networks(valves, full_dists')
            /\ pc' = "ready"
    /\ UNCHANGED <<valves, build, plan, job, stack, ans, table, results, wrapped,
                   entered, pair_order, max_order>>

\* the call of branch_and_bound at the root, from part1 (line 249) or part2
\* (line 262), with fresh ans and max_for_visited
Begin ==
    /\ pc = "ready"
    /\ LET s == NewState(net.start, plan[job].minutes)
           ovf == ShlOverflows(net.start) \/ PairsOverflow(net, Kind, s, 0)
           P == Pairs(net, Kind, s, 0)
       IN  /\ table' = RecordVisited(<<>>, Kind, s)
           /\ ans' = RecordBest(0, s)
           /\ \E sq \in SortedPairs(pair_order, P) :
                  /\ stack' = << [state |-> s, pairs |-> P, order |-> sq] >>
                  /\ pair_order' = Remember(pair_order, P, sq, HasTies(P))
           /\ pc' = IF ovf /\ build = "debug" THEN "panic" ELSE "search"
           /\ wrapped' = (wrapped \/ (ovf /\ build = "release"))
           /\ entered' = {s}
    /\ UNCHANGED <<valves, build, plan, net, full_dists, job, results, max_order>>

\* one iteration of the loop of the innermost call
Step ==
    /\ pc = "search"
    /\ stack # <<>>
    /\ \E p \in NextPairs(Top) : Iterate(p)
    /\ UNCHANGED <<valves, build, plan, net, full_dists, job, results, max_order>>

\* the innermost call returns
Return ==
    /\ pc = "search"
    /\ stack # <<>>
    /\ Top.pairs = {}
    /\ stack' = SubSeq(stack, 1, Len(stack) - 1)
    /\ UNCHANGED <<valves, build, plan, pc, net, full_dists, job, ans, table,
                   results, wrapped, entered, pair_order, max_order>>

Finish(value) ==
    /\ results' = Append(results, value)
    /\ job' = job + 1
    /\ pc' = IF job = Len(plan) THEN "done" ELSE "ready"

\* part1 returns Ok(ans)
Part1End ==
    /\ pc = "search"
    /\ stack = <<>>
    /\ Kind = "part1"
    /\ Finish(ans)
    /\ UNCHANGED <<valves, build, plan, net, full_dists, stack, ans, table, wrapped,
                   entered, pair_order, max_order>>

\* part2 combines the table and returns
Part2End ==
    /\ pc = "search"
    /\ stack = <<>>
    /\ Kind = "part2"
    /\ \E sm \in SortedTable(max_order, table) :
          LET r == Combine(sm, table)
          IN  /\ max_order' = Remember(max_order, table, sm, TableHasTies(table))
              /\ IF r.ovf /\ build = "debug"
                 THEN /\ pc' = "panic"
                      /\ UNCHANGED <<results, job, wrapped>>
                 ELSE /\ Finish(r.ans)
                      /\ wrapped' = (wrapped \/ r.ovf)
    /\ UNCHANGED <<valves, build, plan, net, full_dists, stack, ans, table, entered,
                   pair_order>>

Next == FromStr \/ Begin \/ Step \/ Return \/ Part1End \/ Part2End

Spec == Init /\ [][Next]_vars

----------------------------------------------------------------------------
(* shortest_distances alone, as the test `distances` calls it *)

MaxValves == 3

NamePool == <<"AA", "BB", "CC", "DD", "EE">>

\* the links of a valve: one or two of the first k names
LinkSeqs(k) ==
    {<<NamePool[a]>> : a \in 1..k}
        \cup {<<NamePool[x[1]], NamePool[x[2]]>> :
                 x \in {y \in (1..k) \X (1..k) : y[1] < y[2]}}

\* n records named AA, BB, ...; with `dup` the last one is named AA as well.
\* A link may name a valve that is not in the list when n < MaxValves.
DistLists(n, dup) ==
    {[i \in 1..n |->
         V(IF dup /\ i = n THEN "AA" ELSE NamePool[i], 0, ls[i])] :
        ls \in [1..n -> LinkSeqs(MaxValves)]}

DistInputs ==
    UNION {DistLists(n, FALSE) \cup (IF n >= 2 THEN DistLists(n, TRUE) ELSE {}) :
              n \in 1..MaxValves}

InitDist ==
    /\ valves \in DistInputs
    /\ build \in {"debug", "release"}
    /\ plan = <<>>
    /\ pc = "parsed"
    /\ net = NoNet
    /\ full_dists = <<>>
    /\ job = 1
    /\ stack = <<>>
    /\ ans = 0
    /\ table = <<>>
    /\ results = <<>>
    /\ wrapped = FALSE
    /\ entered = {}
    /\ pair_order = << >>
    /\ max_order = << >>

ShortestDistances ==
    /\ pc = "parsed"
    /\ IF LinksKnown(valves)
       THEN /\ full_dists' = shortest_distances(valves)
            /\ pc' = "dists"
       ELSE /\ pc' = "panic"
            /\ UNCHANGED full_dists
    /\ UNCHANGED <<valves, build, plan, net, job, stack, ans, table, results, wrapped,
                   entered, pair_order, max_order>>

NextDist == ShortestDistances

SpecDist == InitDist /\ [][NextDist]_vars


----------------------------------------------------------------------------
(* The combiner alone: part2 from line 270 on, for a table of any values *)

MaxMask == 4

\* small values, and one that is more than half of u16::MAX
TableValues == {0, 1, 2, 40000}

InitCombine ==
    /\ table \in [0..MaxMask -> TableValues]
    /\ build \in {"debug", "release"}
    /\ valves = << >>
    /\ plan = << Job("part2", Part2Minutes) >>
    /\ pc = "search"
    /\ net = NoNet
    /\ full_dists = <<>>
    /\ job = 1
    /\ stack = <<>>
    /\ ans = 0
    /\ results = <<>>
    /\ wrapped = FALSE
    /\ entered = {}
    /\ pair_order = << >>
    /\ max_order = << >>

NextCombine == Part2End

SpecCombine == InitCombine /\ [][NextCombine]_vars

----------------------------------------------------------------------------
(* What the claims compare the program with *)

SetMax(S) == CHOOSE x \in S : \A y \in S : x >= y

\* The walks of one agent with `rem` minutes left at valve `pos`, having opened
\* `opened` for a total of `p`: each further valve t (not the start, not yet
\* opened) costs dist + 1 minutes and adds flow x (minutes left after opening).
\* The result is the set of [opened, pressure] of all walks, the empty one
\* included.  No machine arithmetic here: the cost is dist + 1.
RECURSIVE Walks(_, _, _, _, _)
Walks(n, pos, rem, opened, p) ==
    {[opened |-> opened, pressure |-> p]} \cup
    UNION { Walks(n, t, rem - (n.dists[pos][t] + 1), opened \cup {t},
                  p + n.flows[t] * (rem - (n.dists[pos][t] + 1))) :
            t \in {x \in DOMAIN n.flows :
                      /\ x # n.start
                      /\ x \notin opened
                      /\ n.dists[pos][x] + 1 <= rem} }

AllWalks(n, minutes) == Walks(n, n.start, minutes, {}, 0)

\* the single-agent optimum
WalkOptimum(n, minutes) == SetMax({w.pressure : w \in AllWalks(n, minutes)})

\* the two-agent optimum: two walks that open disjoint sets of valves
PairOptimum(n, minutes) ==
    LET ws == AllWalks(n, minutes)
    IN  SetMax({pr[1].pressure + pr[2].pressure :
                   pr \in {x \in ws \X ws : x[1].opened \cap x[2].opened = {}}})

\* the successors the build really produces: a debug build stops at an
\* overflow in branch
Successors(n, s) ==
    IF build = "debug" /\ BranchOverflows(n, s) THEN {} ELSE branch(n, s)

\* the largest pressure_released among the states reachable from s
RECURSIVE MaxReachable(_, _)
MaxReachable(n, s) ==
    SetMax({s.pressure_released} \cup {MaxReachable(n, c) : c \in Successors(n, s)})

Returned(i, kind, minutes) ==
    i <= Len(results) /\ plan[i] = Job(kind, minutes)

Constructed == pc \notin {"parsed"} /\ net # NoNet

----------------------------------------------------------------------------
(* Claims *)

\* C1: part1 (30 minutes, strict filter) returns exactly the single-agent
\* optimum over the walks from the start.
C1_Part1IsOptimum ==
    Constructed =>
        \A i \in 1..Len(results) :
            Returned(i, "part1", Part1Minutes) =>
                results[i] = WalkOptimum(net, Part1Minutes)

\* C2: part2 (26 minutes) returns exactly the two-agent optimum over pairs of
\* walks that open disjoint valve sets.  Stated for the runs in which no
\* operation wrapped, so that a violation does not rest on an overflow.
C2_Part2IsPairOptimum ==
    (Constructed /\ ~wrapped) =>
        \A i \in 1..Len(results) :
            Returned(i, "part2", Part2Minutes) =>
                results[i] = PairOptimum(net, Part2Minutes)

\* C3: for every state s the search enters, bound(s) is at least the
\* pressure_released of every state reachable from s by branch transitions.
C3_BoundNeverUnderestimates ==
    (pc = "search" /\ stack # <<>>) =>
        bound(net, Top.state) >= MaxReachable(net, Top.state)

\* C4: at one and the same budget the two-agent result is at least the
\* single-agent result.  Stated for the runs in which no operation wrapped.
C4_HelperNeverHurts ==
    (pc = "done" /\ ~wrapped /\ plan[1].kind = "part1" /\ plan[2].kind = "part2"
        /\ plan[1].minutes = plan[2].minutes) =>
        results[2] >= results[1]

\* C5: on the example network part1 with 30 minutes returns 1651 and part2
\* with 26 minutes returns 1707, and neither call fails.
C5_Example ==
    (valves = Example /\ plan = MainPlan) =>
        /\ pc # "panic"
        /\ ~wrapped
        /\ Len(results) >= 1 => results[1] = 1651
        /\ Len(results) >= 2 => results[2] = 1707

C5_Witness ==
    /\ valves = Example
    /\ plan = MainPlan
    /\ pc = "done"
    /\ results = <<1651, 1707>>

\* C6: once a network is constructed, part1 and part2 never fail: no u8 or u16
\* operation is out of range and both calls return.
C6_SearchNeverFails ==
    Constructed => (pc # "panic" /\ ~wrapped)

\* C7: every call of branch_and_bound returns, each transition strictly
\* decreasing minutes_remaining: along the recursion the minutes strictly
\* decrease from each call to the one it makes, and no call ends in a panic.
C7_MinutesStrictlyDecrease ==
    Constructed =>
        /\ pc # "panic"
        /\ \A i \in 1..(Len(stack) - 1) :
              stack[i + 1].state.minutes_remaining < stack[i].state.minutes_remaining

C10_MonotoneInBudget ==
    (pc = "done" /\ plan[1].kind = "part1" /\ plan[2].kind = "part1"
        /\ plan[1].minutes <= plan[2].minutes) =>
        results[1] <= results[2]

\* valve i lists valve j: one of its links resolves to index j
Lists(vs, i, j) ==
    \E l \in 1..Len(Valve(vs, i).links) : IndexOf(vs, Valve(vs, i).links[l]) = j

\* every tunnel is listed by both of its endpoints
MutualLinks(vs) ==
    \A i, j \in 0..(NumValves(vs) - 1) : Lists(vs, i, j) => Lists(vs, j, i)

Symmetric(d) == \A i, j \in DOMAIN d : d[i][j] = d[j][i]

ZeroDiagonal(d) == \A i \in DOMAIN d : d[i][i] = 0

DistinctNames(vs) ==
    \A i, j \in 0..(NumValves(vs) - 1) : Valve(vs, i).name = Valve(vs, j).name => i = j

\* C8 as claimed: the matrix is symmetric with a zero diagonal for every list
\* whose tunnels name existing valves, one-way tunnels included.  Stated for
\* the lists in which no two records share a name.
C8_SymmetricZeroDiagonal ==
    (pc = "dists" /\ DistinctNames(valves)) =>
        (Symmetric(full_dists) /\ ZeroDiagonal(full_dists))

\* C8, amended: the diagonal is zero for every list whose tunnels name
\* existing valves, and the matrix is symmetric when every tunnel is listed by
\* both of its endpoints.
C8_ZeroDiagonalSymmetricIfMutual ==
    pc = "dists" =>
        /\ ZeroDiagonal(full_dists)
        /\ MutualLinks(valves) => Symmetric(full_dists)

\* a chain of mutual tunnels whose ends are two tunnels apart, one valve
\* listing itself
C8_Witness ==
    /\ pc = "dists"
    /\ MutualLinks(valves)
    /\ \E i \in 0..(NumValves(valves) - 1) : Lists(valves, i, i)
    /\ \E i, j \in DOMAIN full_dists : full_dists[i][j] = 2 /\ full_dists[j][i] = 2

\* C11: with a time budget of 0 the single-agent search returns 0 for every
\* network: from State::new(start, 0) branch yields no successor, the call
\* does not fail, and best stays 0.
C11_ZeroBudgetReturnsZero ==
    Constructed =>
        \A i \in 1..Len(plan) :
            plan[i] = Job("part1", 0) =>
                /\ build = "release" => branch(net, NewState(net.start, 0)) = {}
                /\ (job = i /\ pc # "ready") => (pc # "panic" /\ ans = 0)
                /\ i <= Len(results) => results[i] = 0

\* The network from_str would build without the filter of line 200: every
\* valve of the input is searchable, the distances are the full matrix.
FullNetworks(vs, full) ==
    LET n == NumValves(vs)
        flows == [i \in 0..(n - 1) |-> Valve(vs, i).flow]
    IN  {[flows |-> flows,
          dists |-> full,
          sorted_indexes |-> [p \in 0..(n - 1) |-> s[p + 1]],
          start |-> CHOOSE i \in 0..(n - 1) :
                        /\ Valve(vs, i).name = "AA"
                        /\ \A j \in 0..(i - 1) : Valve(vs, j).name # "AA"] :
            s \in SortedDesc(0..(n - 1), flows)}

\* What branch_and_bound(s, &mut [], ans, strict filter) can leave in *ans when
\* it is called with *ans = best on the network n: one value per order the
\* sort may give to pairs of equal bound, and -1 when the build stops at an
\* operation out of range.
RECURSIVE SearchFrom(_, _, _), SearchPairs(_, _, _)
SearchFrom(n, s, best) ==
    LET b == RecordBest(best, s)
    IN  IF build = "debug" /\ PairsOverflow(n, "part1", s, b)
        THEN {-1}
        ELSE SearchPairs(n, Pairs(n, "part1", s, b), b)

SearchPairs(n, pairs, best) ==
    IF pairs = {} THEN {best}
    ELSE UNION {
           IF filter_bound("part1", p.bound, best)
           THEN UNION {IF r = -1 THEN {-1}
                       ELSE SearchPairs(n, pairs \ {p}, r) :
                          r \in SearchFrom(n, p.state, best)}
           ELSE SearchPairs(n, pairs \ {p}, best) :
              p \in {x \in pairs : \A y \in pairs : x.bound >= y.bound}}

\* the values the single-agent search can return on the unreduced network;
\* with every valve kept, the assert of line 206 stops from_str (-1) when the
\* input has more than 16 valves
FullSearch(minutes) ==
    IF NumValves(valves) > MaskBits THEN {-1}
    ELSE UNION {SearchFrom(fn, NewState(fn.start, minutes), 0) :
                   fn \in FullNetworks(valves, full_dists)}

\* C12: the single-agent search over the reduced network returns the value
\* the same search returns over all valves of the input (searchable valves
\* not filtered, distances of the full graph).
C12_ReductionKeepsResult ==
    Constructed =>
        \A i \in 1..Len(results) :
            plan[i].kind = "part1" => results[i] \in FullSearch(plan[i].minutes)

\* C13: from_str fails fatally, before any search step runs and without
\* producing a Task, when the input has more than 16 interesting valves,
\* when it has no valve named AA, and when a tunnel names a valve that is not
\* in the input: it panics, or, when the input has no record at all and so
\* no AA, returns the error of the parser.
C13_ConfigurationErrorsAreFatal ==
    (\/ Len(interesting_subset(valves)) > MaskBits
     \/ ~HasStart(valves)
     \/ ~LinksKnown(valves)) =>
        /\ pc \in {"parsed", IF ParseFails(valves) THEN "error" ELSE "panic"}
        /\ net = NoNet
        /\ stack = <<>> /\ entered = {} /\ table = <<>> /\ ans = 0
        /\ results = <<>>

\* from_str has failed on seventeen interesting valves, AA among them, all
\* tunnels known
C13_Witness ==
    /\ pc = "panic"
    /\ Len(interesting_subset(valves)) = MaskBits + 1
    /\ HasStart(valves)
    /\ LinksKnown(valves)

\* C14: a valve list with no records is valid input: from_str succeeds, no
\* error is raised, and part1 and part2 both return 0.
C14_EmptyNetworkIsValid ==
    valves = << >> =>
        /\ pc \notin {"panic", "error"}
        /\ pc # "parsed" => net # NoNet
        /\ \A i \in 1..Len(results) : results[i] = 0

\* the successor of s at valve t when the move costs `cost` minutes
SuccessorAt(n, s, t, cost) ==
    [visited |-> SetBit(s.visited, t),
     avoid |-> s.avoid,
     pressure_released |->
         (s.pressure_released + n.flows[t] * (s.minutes_remaining - cost))
             % (U16MAX + 1),
     minutes_remaining |-> s.minutes_remaining - cost,
     pos |-> t]

\* the valves that are neither opened nor the start valve
Unopened(n, s) == {t \in DOMAIN n.flows : ~Bit(s.visited, t) /\ ~Bit(s.avoid, t)}

\* the state of the innermost call of branch_and_bound; every state the
\* search enters is this state when it is entered
Innermost == IF stack = <<>> THEN {} ELSE {Top.state}

\* C15 as claimed: branch yields exactly one successor for every unopened
\* valve t with remaining > dist[pos][t] + 1 and none for any other valve,
\* none when remaining = dist[pos][t] + 1.  Stated for the states the search
\* enters in which no operation of branch is out of range.
C15_BranchYieldsAboveCost ==
    \A s \in Innermost :
        ~BranchOverflows(net, s) =>
            branch(net, s) =
                {SuccessorAt(net, s, t, net.dists[s.pos][t] + 1) :
                    t \in {x \in Unopened(net, s) :
                              s.minutes_remaining > net.dists[s.pos][x] + 1}}

\* C15, amended: branch yields exactly one successor for every unopened valve
\* t with remaining >= cost, cost being dist[pos][t] + 1 in u8, and none for
\* any other valve; when remaining = cost the successor has 0 minutes.  A
\* debug build panics where a cost or a pressure is out of range.
C15_BranchYieldsAtCostOrAbove ==
    \A s \in Innermost :
        IF build = "debug" /\ BranchOverflows(net, s)
        THEN pc = "panic"
        ELSE branch(net, s) =
                {SuccessorAt(net, s, t, (net.dists[s.pos][t] + 1) % (U8MAX + 1)) :
                    t \in {x \in Unopened(net, s) :
                              s.minutes_remaining
                                  >= (net.dists[s.pos][x] + 1) % (U8MAX + 1)}}

\* an entered state with a successor that spends exactly the minutes left
C15_Witness ==
    \E s \in Innermost :
        /\ ~BranchOverflows(net, s)
        /\ \E c \in branch(net, s) :
              /\ s.minutes_remaining = net.dists[s.pos][c.pos] + 1
              /\ c.minutes_remaining = 0
              /\ c.pressure_released = s.pressure_released

\* C16: branch never yields a successor whose target cannot be reached from
\* the current valve (distance at the sentinel 255): the cost d + 1 does not
\* wrap to 0, so no move is free and keeps minutes_remaining unchanged.
C16_NoMoveToUnreachable ==
    \A s \in Innermost :
        \A c \in Successors(net, s) :
            /\ net.dists[s.pos][c.pos] < U8MAX
            /\ c.minutes_remaining < s.minutes_remaining

\* the largest sum of two positive entries at different, disjoint masks; 0
\* when there is no such pair
PairMax(t) ==
    SetMax({0} \cup {t[x[1]] + t[x[2]] :
                        x \in {y \in (DOMAIN t) \X (DOMAIN t) :
                                  /\ y[1] # y[2]
                                  /\ Disjoint(y[1], y[2])
                                  /\ t[y[1]] > 0
                                  /\ t[y[2]] > 0}})

\* C17: for any table the combiner returns the largest v[a] + v[b] over
\* a # b, a & b = 0, v[a] > 0, v[b] > 0, and 0 when there is no such pair; it
\* does not fail and no early break skips the pair of the maximum.
C17_CombinerReturnsBestPair ==
    /\ pc # "panic"
    /\ pc = "done" => results[1] = PairMax(table)

\* C18: in the two-agent search a child is kept exactly when its bound is
\* above 0.75 x best and pruned exactly when it is not, for every value of
\* best the search reaches: the test made before a child is entered agrees
\* with 4 x bound > 3 x best, and its u16 arithmetic does not fail.
C18_LooseFilterIsThreeQuarters ==
    /\ (pc = "panic" /\ stack # <<>>) => ~FilterOverflows(Kind, ans)
    /\ (pc = "search" /\ stack # <<>> /\ Kind = "part2") =>
          \A p \in NextPairs(Top) :
              filter_bound(Kind, p.bound, ans) <=> (4 * p.bound > 3 * ans)

\* C19: in the single-agent search the child taken next from the pairs of the
\* innermost call is entered iff its bound is above best at that moment, best
\* being possibly raised by earlier siblings since the child was generated,
\* and every child a call generates has a bound above best at its generation.
C19_EnteredIffBoundAboveBest ==
    [][(pc = "search" /\ stack # <<>> /\ Kind = "part1" /\ Top.pairs # {}) =>
          \E p \in NextPairs(Top) :
              /\ stack'[Len(stack)].pairs = Top.pairs \ {p}
              /\ IF p.bound > ans
                 THEN /\ Len(stack') = Len(stack) + 1
                      /\ stack'[Len(stack')].state = p.state
                      /\ entered' = entered \cup {p.state}
                      /\ \A q \in stack'[Len(stack')].pairs : q.bound > ans'
                 ELSE /\ Len(stack') = Len(stack)
                      /\ entered' = entered
                      /\ ans' = ans]_vars

\* a child that passed the filter when it was generated and whose bound is
\* no longer above best, raised by a sibling entered before it
C19_Witness ==
    /\ pc = "search"
    /\ stack # <<>>
    /\ Kind = "part1"
    /\ Cardinality(entered) > 1
    /\ \E p \in NextPairs(Top) : p.bound <= ans /\ p.bound > Top.state.pressure_released

\* the largest pressure_released among the entered states whose visited is
\* m, 0 when there is none
BestEntered(m) ==
    SetMax({0} \cup {s.pressure_released : s \in {x \in entered : x.visited = m}})

\* C20: during a search best and the table entries never decrease; entering
\* a state makes best the max of best and its pressure and, in the two-agent
\* search, makes table[visited] the max of the entry and its pressure, and
\* changes no other entry; when the search is over best is the largest
\* pressure entered, table[m] is the largest pressure entered with
\* visited = m, and 0 for the masks no entered state had.
C20_TableHoldsBestPerMask ==
    /\ []((pc = "search" /\ stack = <<>>) =>
            /\ ans = SetMax({0} \cup {s.pressure_released : s \in entered})
            /\ Kind = "part1" => table = <<>>
            /\ Kind = "part2" =>
                  \A m \in DOMAIN table \cup {s.visited : s \in entered} :
                      TableAt(table, m) = BestEntered(m))
    /\ [][pc = "search" =>
            /\ ans' >= ans
            /\ \A m \in DOMAIN table : TableAt(table', m) >= table[m]
            /\ IF Len(stack') = Len(stack) + 1
               THEN LET s == stack'[Len(stack')].state
                    IN  /\ ans' = Max(ans, s.pressure_released)
                        /\ Kind = "part2" =>
                              /\ TableAt(table', s.visited)
                                    = Max(TableAt(table, s.visited), s.pressure_released)
                              /\ \A m \in DOMAIN table' \ {s.visited} :
                                    m \in DOMAIN table /\ table'[m] = table[m]
               ELSE ans' = ans /\ table' = table]_vars

\* the two-agent search is over; two entered states had the same visited
\* mask and different pressures, and the table holds the larger one
C20_Witness ==
    /\ pc = "search"
    /\ stack = <<>>
    /\ Kind = "part2"
    /\ \E s1, s2 \in entered :
          /\ s1.visited = s2.visited
          /\ s1.pressure_released < s2.pressure_released
          /\ TableAt(table, s1.visited) = s2.pressure_released
          /\ BestEntered(s1.visited) = s2.pressure_released

\* every bit of mask a is a bit of mask b
SubMask(a, b) == \A i \in 0..(MaskBits - 1) : Bit(a, i) => Bit(b, i)

\* C21: along every transition produced by branch, from an entered state s to
\* a successor c, minutes_remaining strictly decreases, visited only gains
\* bits and pressure_released does not decrease.
C21_TransitionsAreMonotone ==
    \A s \in Innermost :
        \A c \in Successors(net, s) :
            /\ c.minutes_remaining < s.minutes_remaining
            /\ SubMask(s.visited, c.visited)
            /\ c.pressure_released >= s.pressure_released

\* C22: each valve is opened at most once along any path: the target of a
\* transition is never in visited already and the transition adds exactly its
\* bit, so the calls in progress stand at different valves and the depth of
\* the recursion never exceeds the number of interesting valves.
C22_EachValveOpenedOnce ==
    /\ Len(stack) <= NumInteresting(net)
    /\ \A i, j \in 1..Len(stack) : i < j => stack[i].state.pos # stack[j].state.pos
    /\ \A s \in Innermost :
          \A c \in branch(net, s) :
              /\ ~Bit(s.visited, c.pos)
              /\ c.visited = s.visited + Pow2(c.pos)
              /\ \A i \in 0..(MaskBits - 1) :
                    i # c.pos => (Bit(c.visited, i) <=> Bit(s.visited, i))

\* the recursion is as deep as the network has interesting valves: every
\* valve but the start is opened on the path, and nothing is left to branch to
C22_Witness ==
    /\ pc = "search"
    /\ NumInteresting(net) >= 4
    /\ Len(stack) = NumInteresting(net)
    /\ \A i \in DOMAIN net.flows : i # net.start => Bit(Top.state.visited, i)
    /\ branch(net, Top.state) = {}

\* a valve of the largest flow in the set T of valves
TopFlow(n, T) == CHOOSE t \in T : \A u \in T : n.flows[t] >= n.flows[u]

\* the i-th and later terms of the sum: the largest flow left in T is
\* credited rem - 2i minutes, while that is >= 0
RECURSIVE CreditFrom(_, _, _, _)
CreditFrom(n, T, rem, i) ==
    IF T = {} \/ rem - 2 * i < 0 THEN 0
    ELSE n.flows[TopFlow(n, T)] * (rem - 2 * i)
            + CreditFrom(n, T \ {TopFlow(n, T)}, rem, i + 1)

\* pressure_released + the sum over i = 1..n of f_i x (remaining - 2i)
Credited(n, s) ==
    s.pressure_released + CreditFrom(n, Unopened(n, s), s.minutes_remaining, 1)

\* C23: for every state the search enters and every successor branch makes
\* of it, bound(state) equals pressure_released + the sum over i = 1..n of
\* f_i x (remaining - 2i), f_1 >= f_2 >= ... being the flows of the valves
\* that are neither opened nor the start and n the smaller of their number
\* and floor(remaining / 2).
C23_BoundIsCreditedSum ==
    \A s \in Innermost :
        \A c \in {s} \cup Successors(net, s) :
            bound(net, c) = Credited(net, c)

\* the valves at most k tunnels from i, a tunnel leading from a valve to
\* each valve its record lists
RECURSIVE Within(_, _, _)
Within(vs, i, k) ==
    IF k = 0 THEN {i}
    ELSE LET near == Within(vs, i, k - 1)
         IN  near \cup {j \in 0..(NumValves(vs) - 1) :
                           \E h \in near : Lists(vs, h, j)}

\* the number of tunnels on a shortest path from i to j, the sentinel when
\* there is no path
Tunnels(vs, i, j) ==
    LET ks == {k \in 0..(NumValves(vs) - 1) : j \in Within(vs, i, k)}
    IN  IF ks = {} THEN U8MAX ELSE CHOOSE k \in ks : \A m \in ks : k <= m

\* C24: shortest_distances returns for every ordered pair (i, j) the number
\* of tunnels on a shortest path from i to j, and the sentinel 255 when j
\* cannot be reached from i; the saturating addition of two entries one of
\* which is the sentinel is the sentinel.
C24_DistancesAreShortestPaths ==
    pc = "dists" =>
        /\ DOMAIN full_dists = 0..(NumValves(valves) - 1)
        /\ \A i, j \in DOMAIN full_dists :
              full_dists[i][j] = Tunnels(valves, i, j)
        /\ \A i, k, j \in DOMAIN full_dists :
              (full_dists[i][k] = U8MAX \/ full_dists[k][j] = U8MAX) =>
                  SaturatingAdd(full_dists[i][k], full_dists[k][j]) = U8MAX

\* a one-way chain: j is two tunnels from i through k, and i cannot be
\* reached from j or from k
C24_Witness ==
    /\ pc = "dists"
    /\ \E i, k, j \in DOMAIN full_dists :
          /\ full_dists[i][k] = 1
          /\ full_dists[k][j] = 1
          /\ full_dists[i][j] = 2
          /\ full_dists[j][i] = U8MAX
          /\ full_dists[k][i] = U8MAX
          /\ full_dists[j][k] = 1

\* C25: within one call of branch_and_bound the children are taken, and so
\* entered, in non-increasing order of bound: the child the loop takes has a
\* bound at least that of every sibling still waiting, and a state is
\* entered only as the child just taken.
C25_ChildrenByDescendingBound ==
    [][(pc = "search" /\ stack # <<>> /\ Top.pairs # {} /\ stack' # stack) =>
          \E p \in Top.pairs :
              /\ stack'[Len(stack)].pairs = Top.pairs \ {p}
              /\ \A q \in Top.pairs \ {p} : q.bound <= p.bound
              /\ p.bound = bound(net, p.state)
              /\ Len(stack') > Len(stack) =>
                    /\ Len(stack') = Len(stack) + 1
                    /\ stack'[Len(stack')].state = p.state]_vars

\* a child has just been entered after a sibling of a larger bound was
C25_Witness ==
    /\ pc = "search"
    /\ Len(stack) >= 2
    /\ LET parent == stack[Len(stack) - 1].state
       IN  /\ Top.state \in branch(net, parent)
           /\ \E a \in branch(net, parent) :
                 /\ a \in entered
                 /\ a.pos # Top.state.pos
                 /\ bound(net, a) > bound(net, Top.state)
                 /\ \A q \in stack[Len(stack) - 1].pairs : q.state # a

\* C26: the start valve is never opened: every state the search enters and
\* every successor branch makes of it has avoid = 1 << start and no bit of
\* avoid in visited; no successor stands at the start valve, and a move adds
\* the flow of its target only, so the flow of the start valve, positive or
\* not, is never added to pressure_released.
C26_StartNeverOpened ==
    \A s \in Innermost :
        /\ s.avoid = Pow2(net.start)
        /\ ~Bit(s.visited, net.start)
        /\ s.visited = 0 => s.pressure_released = 0
        /\ \A c \in branch(net, s) :
              /\ c.avoid = s.avoid
              /\ c.pos # net.start
              /\ ~Bit(c.visited, net.start)
              /\ Disjoint(c.visited, c.avoid)
              /\ c.pressure_released =
                    (s.pressure_released + c.minutes_remaining * net.flows[c.pos])
                        % (U16MAX + 1)

\* the start valve has a positive flow, and the search stands at another
\* valve with pressure released and minutes left
C26_Witness ==
    /\ pc = "search"
    /\ Len(stack) >= 2
    /\ net.flows[net.start] > 0
    /\ Top.state.pressure_released > 0
    /\ Top.state.minutes_remaining > 0
    /\ Top.state.pos # net.start
    /\ ~Bit(Top.state.visited, net.start)

\* C27: in the two-agent search the product best * 3 of the loose filter
\* never exceeds 65535, whatever best the search reaches: neither when the
\* children of an entered state are filtered nor when a waiting child is
\* tested again.
C27_ThreeTimesBestFitsU16 ==
    (job <= Len(plan) /\ Kind = "part2" /\ stack # <<>>) =>
        /\ pc = "panic" => ~FilterOverflows(Kind, ans)
        /\ (pc = "search" /\ (Top.pairs # {} \/ branch(net, Top.state) # {})) =>
              ans * 3 <= U16MAX

\* C28: for the table a 26-minute search has produced, no sum
\* elf_max + ele_max the combiner computes, for overlapping masks as for
\* disjoint ones, exceeds 65535, whatever order the sort gives equal values.
C28_PairSumsFitU16 ==
    (pc = "search" /\ stack = <<>> /\ Kind = "part2"
        /\ plan[job].minutes = Part2Minutes) =>
        \A sm \in SortedMax(table) : ~Combine(sm, table).ovf

\* C29: bound does not increase along a transition and is at least the
\* pressure already released: for every state s the search enters and every
\* successor c branch makes of it, bound(c) <= bound(s), and
\* bound(s) >= s.pressure_released.
C29_BoundNonIncreasing ==
    \A s \in Innermost :
        /\ bound(net, s) >= s.pressure_released
        /\ \A c \in Successors(net, s) :
              /\ bound(net, c) <= bound(net, s)
              /\ bound(net, c) >= c.pressure_released

\* C30: in the two-agent search the visited mask of every state the search
\* enters, and of every successor branch makes of it, is an index of the
\* table, which has 65535 entries: visited < 65535, so the pressure of every
\* entered state is recorded, the table holding at visited at least that
\* pressure.
C30_VisitedIsTableIndex ==
    (job <= Len(plan) /\ Kind = "part2") =>
        \A s \in Innermost :
            /\ s.visited < TableLen(Kind)
            /\ s.visited \in DOMAIN table
            /\ table[s.visited] >= s.pressure_released
            /\ \A c \in branch(net, s) : c.visited < TableLen(Kind)

\* a network of sixteen interesting valves, the largest number from_str
\* accepts: the search has entered the valve of the highest bit
C30_Witness ==
    /\ pc = "search"
    /\ Kind = "part2"
    /\ NumInteresting(net) = MaskBits
    /\ \E s \in Innermost :
          /\ Bit(s.visited, MaskBits - 1)
          /\ s.visited \in DOMAIN table
          /\ table[s.visited] = s.pressure_released
          /\ s.pressure_released > 0
=============================================================================
